---- MODULE Spec2Model ----
(***************************************************************************)
(* Model of sqlalchemy_toolbox/wrappers/wrapper.py: the Pagination value   *)
(* object, FlaskBaseQuery.paginate and the SQLAlchemyWrapper lifecycle     *)
(* (connect_sqlite, connect_postgresql, set_config,                        *)
(* initialize_migrations).                                                 *)
(*                                                                         *)
(* Three specifications share the variables:                               *)
(*   SpecPages    Pagination objects built directly, reading .pages        *)
(*   SpecPaginate paginate / prev / next over a query with `rows` rows     *)
(*   SpecWrapper  the wrapper object and the file system it touches        *)
(***************************************************************************)
EXTENDS Integers, Sequences, FiniteSets, TLC

\* ------------------------------------------------------------------ bounds
MaxTotal == 100
MaxPerPage == 3
MaxPageSize == 21
MaxPage == 3
MaxNeg == 2
MaxRows == 4
MaxLive == 3

\* Python's None and optional values: <<>> is None, <<x>> is the value x.
None == <<>>
Some(x) == <<x>>
Val(o) == o[1]

\* -------------------------------------------------------------- Pagination
\* int(ceil(a / float(b))) for b # 0: the float quotient is exact below 2^53,
\* so its ceiling is the floor quotient plus one when a remainder is left.
CeilFloatDiv(a, b) ==
    IF b > 0
    THEN (a \div b) + (IF a % b = 0 THEN 0 ELSE 1)
    ELSE ((0 - a) \div (0 - b)) + (IF (0 - a) % (0 - b) = 0 THEN 0 ELSE 1)

PagesWrongFloor(p) ==
    IF p.per_page = 0 \/ p.total = None
    THEN 0
    ELSE Val(p.total) \div p.per_page

\* Pagination.pages
Pages(p) ==
    IF p.per_page = 0 \/ p.total = None
    THEN 0
    ELSE CeilFloatDiv(Val(p.total), p.per_page)

\* Pagination.has_prev
HasPrev(p) == p.page > 1

\* Pagination.prev_num
PrevNum(p) == IF ~HasPrev(p) THEN None ELSE Some(p.page - 1)

\* Pagination.has_next
HasNext(p) == p.page < Pages(p)

\* Pagination.next_num
NextNum(p) == IF ~HasNext(p) THEN None ELSE Some(p.page + 1)

\* Pagination.__init__
NewPagination(oid, query, page, per_page, total, items) ==
    [oid |-> oid, query |-> query, page |-> page, per_page |-> per_page,
     total |-> total, items |-> items]

VARIABLES
    pg,         \* SpecPages: a Pagination built directly by its constructor
    pagesOut,   \* SpecPages: the last value read from pg.pages (None: not read)
    rows,       \* SpecPaginate: number of rows the query matches
    cur,        \* SpecPaginate: the Pagination prev()/next() was called on
    ret,        \* SpecPaginate: outcome of the last paginate/prev/next call
    call,       \* SpecPaginate: the last call and its arguments
    wrapper,    \* SpecWrapper: the SQLAlchemyWrapper object's attributes
    files,      \* SpecWrapper: the database files that exist
    ini,        \* SpecWrapper: sqlalchemy.url of each directory's alembic.ini
    wcall,      \* SpecWrapper: the last wrapper call and its arguments
    wret        \* SpecWrapper: outcome of the last wrapper call

pvars == <<pg, pagesOut>>
qvars == <<rows, cur, ret, call>>
wvars == <<wrapper, files, ini, wcall, wret>>
vars == <<pg, pagesOut, rows, cur, ret, call, wrapper, files, ini, wcall, wret>>

\* ----------------------------------------------------------- the request
\* flask.request as paginate sees it: `active` is bool(request); page and
\* per_page are request.args.get(...) before the default is applied, None
\* when the parameter is absent, else the parameter's text as characters.
ArgStrs ==
    {<<>>, <<"x">>, <<"0">>, <<"1">>, <<"2">>, <<"-", "1">>, <<"2", "0">>,
     <<"1", "x">>, <<"-">>}

ArgVals == {None} \cup {Some(s) : s \in ArgStrs}

Requests ==
    {[active |-> FALSE, page |-> None, per_page |-> None]}
    \cup [active : {TRUE}, page : ArgVals, per_page : ArgVals]

Digits == {"0", "1", "2"}
DigitVal(c) == CASE c = "0" -> 0 [] c = "1" -> 1 [] c = "2" -> 2

RECURSIVE DigitsVal(_)
DigitsVal(s) ==
    IF s = <<>> THEN 0
    ELSE 10 * DigitsVal(SubSeq(s, 1, Len(s) - 1)) + DigitVal(s[Len(s)])

AllDigits(s) == s # <<>> /\ \A i \in 1..Len(s) : s[i] \in Digits

\* int(text): None stands for the ValueError int() raises.
ParseInt(s) ==
    IF AllDigits(s) THEN Some(DigitsVal(s))
    ELSE IF s # <<>> /\ s[1] = "-" /\ AllDigits(Tail(s))
         THEN Some(0 - DigitsVal(Tail(s)))
         ELSE None

\* int(request.args.get(name, default)): the default is already an int.
IntArg(arg, default) == IF arg = None THEN Some(default) ELSE ParseInt(Val(arg))

\* ------------------------------------------------------------ the query
\* The query matches rows 1..n in order; limit(l).offset(o).all().
Slice(n, l, o) == [i \in 1..(IF o + l < n THEN l ELSE IF o < n THEN n - o ELSE 0) |-> o + i]

\* order_by(None).count()
Count(n) == n

\* ------------------------------------------------- FlaskBaseQuery.paginate
DefaultPage == 1
DefaultPerPage == 20

\* What a call produces: a returned Pagination (kind "ok") or a raised
\* exception (kind "raise"); slice is the limit/offset handed to the query,
\* None when the call ended before the query was run.
Raise(status, msg, slice) ==
    [kind |-> "raise", exc |-> "SQLAlchemyResolverFlaskException",
     status_code |-> status, message |-> msg, obj |-> None, slice |-> slice]

Return(obj, slice) ==
    [kind |-> "ok", exc |-> "", status_code |-> 0, message |-> "",
     obj |-> Some(obj), slice |-> slice]

NoOutcome ==
    [kind |-> "none", exc |-> "", status_code |-> 0, message |-> "",
     obj |-> None, slice |-> None]

ResolveArgIgnoresRequest(active, given, arg, default, strict) ==
    IF given # None THEN given ELSE Some(default)

\* Lines 155-184 for one parameter: the value paginate goes on with, or None
\* when the strict call raises on a parameter int() rejects.
ResolveArg(active, given, arg, default, strict) ==
    IF given # None THEN given
    ELSE IF active
         THEN LET parsed == IntArg(arg, default)
              IN IF parsed # None THEN parsed
                 ELSE IF strict THEN None ELSE Some(default)
         ELSE Some(default)

FallbackPageKeeps(page) == page

\* Lines 186-193, non-strict branch.
FallbackPage(page) == IF page < 1 THEN DefaultPage ELSE page

FallbackPerPageZero(per_page) == IF per_page < 0 THEN 0 ELSE per_page

\* Lines 195-202, non-strict branch.
FallbackPerPage(per_page) == IF per_page < 0 THEN DefaultPerPage ELSE per_page

EmptyPageRefusedAlways(items, page, strict) == items = <<>> /\ strict

\* Line 206: the strict call refuses an empty page other than page 1.
EmptyPageRefused(items, page, strict) == items = <<>> /\ page # 1 /\ strict

Paginate(n, req, page, per_page, strict, oid) ==
    LET p0 == ResolveArg(req.active, page, req.page, DefaultPage, strict)
    IN IF p0 = None
       THEN Raise(400, "Given page does not exist", None)
       ELSE
    LET pp0 == ResolveArg(req.active, per_page, req.per_page, DefaultPerPage, strict)
    IN IF pp0 = None
       THEN Raise(400, "Given per page value does not exist", None)
       ELSE IF Val(p0) < 1 /\ strict
       THEN Raise(400, "Page value is negative", None)
       ELSE IF Val(pp0) < 0 /\ strict
       THEN Raise(400, "Per page value is negative", None)
       ELSE
    LET p1 == FallbackPage(Val(p0))
        pp1 == FallbackPerPage(Val(pp0))
        sl == [limit |-> pp1, offset |-> (p1 - 1) * pp1]
        items == Slice(n, sl.limit, sl.offset)
    IN IF EmptyPageRefused(items, p1, strict)
       THEN Raise(400, "No values", Some(sl))
       ELSE Return(NewPagination(oid, "query", p1, pp1, Some(Count(n)), items),
                   Some(sl))

\* ------------------------------------------------------ SQLAlchemyWrapper
\* Strings are sequences of tokens, so that formatting and joining build
\* them. Truthy(s): a Python string that is neither None nor empty.
Truthy(s) == s # None /\ Val(s) # <<>>

\* str.format of an argument that may be None
Fmt(x) == IF x = None THEN <<"None">> ELSE Val(x)

\* Config(): the configuration mapping, empty when created.
NewConfig == [k \in {} |-> <<>>]
Put(cfg, k, v) == [x \in DOMAIN cfg \cup {k} |-> IF x = k THEN v ELSE cfg[x]]

\* What a wrapper call produces: it returns (kind "ok") or raises `exc`.
WRaise(exc, msg) == [kind |-> "raise", exc |-> exc, message |-> msg]
WReturn == [kind |-> "ok", exc |-> "", message |-> ""]
WNone == [kind |-> "none", exc |-> "", message |-> ""]
ConfigError(msg) == WRaise("SQLAlchemyWrapperException", msg)

\* SQLAlchemyWrapper.__init__
NewWrapper(config) ==
    [engine |-> None, session_factory |-> None, Session |-> None,
     model_bound |-> FALSE, config |-> config, connected |-> FALSE,
     url |-> None]

\* get_database_url
GetDatabaseUrl(w) == w.url

\* self.config[key]: the value, or the exception the subscript raises.
Lookup(w, key) ==
    IF w.config = None THEN [ok |-> FALSE, exc |-> "TypeError", v |-> <<>>]
    ELSE IF key \notin DOMAIN Val(w.config)
         THEN [ok |-> FALSE, exc |-> "KeyError", v |-> <<>>]
         ELSE [ok |-> TRUE, exc |-> "", v |-> Val(w.config)[key]]

\* create_engine(url): a URL it cannot parse raises ArgumentError.
UrlParses(url) == url # <<>> /\ url[1] \in {"sqlite:////", "postgresql://"}

\* initialize_engine, initialize_session, initialize_model, connected = True
\* (lines 322-327 and 369-372) once self._url is set.
FinishConnect(w, ssl_require) ==
    IF ~UrlParses(Val(w.url))
    THEN [w |-> w, ret |-> WRaise("ArgumentError", "Could not parse URL")]
    ELSE LET eng == [url |-> Val(w.url), ssl |-> ssl_require]
         IN [w |-> [w EXCEPT !.engine = Some(eng),
                             !.session_factory = Some([bind |-> eng]),
                             !.Session = Some([factory |-> [bind |-> eng]]),
                             !.model_bound = TRUE,
                             !.connected = TRUE],
             ret |-> WReturn]

\* The directories that exist (os.path.isdir).
IsDir(path) == path \in {<<"data">>, <<"mig">>, <<"mig_noini">>, <<"mig_bare">>}

\* os.path.join(directory, name) + ".sqlite3"
DatabasePath(dir, name) == dir \o <<"/">> \o name \o <<".sqlite3">>

SqliteArgsErrorNoDirCheck(dir, name) ==
    IF dir = None THEN <<"Missing configuration database_directory_path">>
    ELSE IF name = None THEN <<"Missing configuration database_name">>
    ELSE <<>>

\* Lines 341-354: the message of the configuration error, <<>> when the
\* arguments pass.
SqliteArgsError(dir, name) ==
    IF dir = None THEN <<"Missing configuration database_directory_path">>
    ELSE IF ~IsDir(Val(dir)) THEN <<"Given database path is not a directory">>
    ELSE IF name = None THEN <<"Missing configuration database_name">>
    ELSE <<>>

\* connect_sqlite: the wrapper, the files and the outcome after the call.
ConnectSqlite(w, fls, dir, name, connection_url) ==
    LET w1 == [w EXCEPT !.config =
                  IF Truthy(connection_url)
                  THEN Some(Put(NewConfig, "DATABASE_URL", Val(connection_url)))
                  ELSE Some(NewConfig)]
        err == IF Truthy(connection_url) THEN <<>> ELSE SqliteArgsError(dir, name)
    IN IF err # <<>>
       THEN [w |-> w1, files |-> fls, ret |-> ConfigError(err[1])]
       ELSE IF dir = None \/ name = None
       THEN [w |-> w1, files |-> fls, ret |-> WRaise("TypeError", "os.path.join")]
       ELSE
    LET path == DatabasePath(Val(dir), Val(name))
        w2 == [w1 EXCEPT !.config = Some(Put(Val(w1.config), "DATABASE_PATH", path))]
    IN IF path \notin fls /\ ~IsDir(Val(dir))
       THEN [w |-> w2, files |-> fls, ret |-> WRaise("FileNotFoundError", "os.mknod")]
       ELSE
    LET url == <<"sqlite:////">> \o path
        cfg == Put(Put(Val(w2.config), "DATABASE_URL", url), "DATABASE_TYPE", <<"SQLITE3">>)
        w3 == [w2 EXCEPT !.config = Some(cfg), !.url = Some(url)]
        done == FinishConnect(w3, FALSE)
    IN [w |-> done.w, files |-> fls \cup {path}, ret |-> done.ret]

\* 'postgresql://{}:{}@{}/{}'.format(username, password, host, name)
PostgresqlUrl(username, password, host, name) ==
    <<"postgresql://">> \o Fmt(username) \o <<":">> \o Fmt(password)
        \o <<"@">> \o Fmt(host) \o <<"/">> \o Fmt(name)

\* connect_postgresql: the wrapper and the outcome after the call.
ConnectPostgresql(w, config, host, username, password, name, ssl_require, connection_url) ==
    LET w1 == IF Truthy(connection_url)
              THEN IF config = None
                   THEN [w EXCEPT !.config =
                            Some(Put(Put(NewConfig, "DATABASE_URL", Val(connection_url)),
                                     "DATABASE_TYPE", <<"POSTGRESQL">>))]
                   ELSE w
              ELSE [w EXCEPT !.config =
                       Some(Put(Put(NewConfig, "DATABASE_URL",
                                    PostgresqlUrl(username, password, host, name)),
                                "DATABASE_TYPE", <<"POSTGRESQL">>))]
        got == Lookup(w1, "DATABASE_URL")
    IN IF ~got.ok
       THEN [w |-> w1, ret |-> WRaise(got.exc, "self.config[DATABASE_URL]")]
       ELSE FinishConnect([w1 EXCEPT !.url = Some(got.v)], ssl_require)

\* set_config
SetConfig(w, config) == [w EXCEPT !.config = config]

\* The layout of a migrations directory: the directory itself, its alembic
\* subdirectory (os.path.isdir) and, in `ini`, its alembic.ini.
HasAlembicDir(dir) == dir \in {<<"mig">>, <<"mig_noini">>}
HasIni(inis, dir) == inis[dir] # None

MigrationsErrorIniFirst(w, inis, dir, raise_exception) ==
    IF ~w.connected THEN <<"SQLAlchemy wrapper is not connected">>
    ELSE IF ~IsDir(dir) /\ raise_exception
    THEN <<"Migration directory does not exist">>
    ELSE IF ~HasIni(inis, dir) /\ raise_exception
    THEN <<"Alembic ini file does not exist">>
    ELSE IF ~HasAlembicDir(dir) /\ raise_exception
    THEN <<"Alembic migration directory does not exist">>
    ELSE <<>>

\* Lines 264-286: the message of the configuration error, <<>> when the
\* checks pass.
MigrationsError(w, inis, dir, raise_exception) ==
    IF ~w.connected THEN <<"SQLAlchemy wrapper is not connected">>
    ELSE IF ~IsDir(dir) /\ raise_exception
    THEN <<"Migration directory does not exist">>
    ELSE IF ~HasAlembicDir(dir) /\ raise_exception
    THEN <<"Alembic migration directory does not exist">>
    ELSE IF ~HasIni(inis, dir) /\ raise_exception
    THEN <<"Alembic ini file does not exist">>
    ELSE <<>>

\* The URL line 288 hands to configure_alembic.
MigrationsUrl(w) == Lookup(w, "DATABASE_URL")

\* configure_alembic(url, alembic_ini_path): sets sqlalchemy.url in section
\* alembic of the ini file; a missing file has no such section to rewrite.
ConfigureAlembic(inis, dir, url) ==
    IF HasIni(inis, dir)
    THEN [ini |-> [inis EXCEPT ![dir] = Some(url)], ret |-> WReturn]
    ELSE [ini |-> inis, ret |-> WRaise("OSError", "alembic.ini")]

\* initialize_migrations: the ini files and the outcome after the call.
InitializeMigrations(w, inis, dir, raise_exception) ==
    LET err == MigrationsError(w, inis, dir, raise_exception)
    IN IF err # <<>>
       THEN [ini |-> inis, ret |-> ConfigError(err[1]), attempted |-> FALSE]
       ELSE LET got == MigrationsUrl(w)
            IN IF ~got.ok
               THEN [ini |-> inis, attempted |-> TRUE,
                     ret |-> WRaise(got.exc, "self.config[DATABASE_URL]")]
               ELSE LET out == ConfigureAlembic(inis, dir, got.v)
                    IN [ini |-> out.ini, ret |-> out.ret, attempted |-> TRUE]

\* The arguments the calls are drawn from.
DirArgs == {None, Some(<<"data">>), Some(<<"nodir">>)}
NameArgs == {None, Some(<<"test_db">>)}
UrlArgs == {None, Some(<<>>), Some(<<"postgresql://", "u:p@remote/db">>),
            Some(<<"not a url">>)}
OtherConfig == Put(NewConfig, "DATABASE_URL", <<"postgresql://", "other">>)
ConfigArgs == {None, Some(OtherConfig)}
Credentials ==
    {[host |-> None, username |-> None, password |-> None, name |-> None],
     [host |-> Some(<<"host">>), username |-> Some(<<"user">>),
      password |-> Some(<<"pw">>), name |-> Some(<<"db">>)]}
MigDirs == {<<"mig">>, <<"mig_noini">>, <<"mig_bare">>, <<"nomig">>}

\* alembic init leaves a placeholder URL in the alembic.ini it writes.
InitialIni == [d \in MigDirs |-> IF d = <<"mig">> THEN Some(<<"driver://">>) ELSE None]
NoIni == [d \in MigDirs |-> None]

NoWCall ==
    [op |-> "none", dir |-> None, name |-> None, url |-> None, flag |-> FALSE,
     attempted |-> FALSE]

\* ------------------------------------------------------------- SpecPages
InitPages ==
    /\ \E total \in {None} \cup {Some(t) : t \in 0..MaxTotal},
          per_page \in (0 - MaxNeg)..MaxPageSize :
          pg = Some(NewPagination(1, "None", 1, per_page, total, <<>>))
    /\ pagesOut = None
    /\ rows = 0
    /\ cur = None
    /\ ret = [kind |-> "none", exc |-> "", status_code |-> 0, message |-> "",
              obj |-> None, slice |-> None]
    /\ call = [op |-> "none", page |-> None, per_page |-> None, strict |-> FALSE,
               req |-> [active |-> FALSE, page |-> None, per_page |-> None]]
    /\ wrapper = NewWrapper(None)
    /\ files = {}
    /\ ini = NoIni
    /\ wcall = NoWCall
    /\ wret = WNone

ReadPages ==
    /\ pg # None
    /\ pagesOut' = Some(Pages(Val(pg)))
    /\ UNCHANGED <<pg, qvars, wvars>>

\* ---------------------------------------------------------- SpecPaginate
PageArgs == {None} \cup {Some(p) : p \in (0 - MaxNeg)..MaxPage}
PerPageArgs ==
    {None} \cup {Some(p) : p \in ((0 - MaxNeg)..MaxPerPage) \cup {DefaultPerPage}}
RowCounts == (0..MaxRows) \cup {DefaultPerPage + 1}

\* The Pagination objects the caller can still reach.
Live == {Val(o) : o \in {cur, ret.obj} \ {None}}

\* id() of a new object: an identity no live object has.
FreshOid ==
    CHOOSE i \in 1..MaxLive :
        /\ \A o \in Live : o.oid # i
        /\ \A j \in 1..(i - 1) : \E o \in Live : o.oid = j

\* The requests a call can tell apart: a parameter given explicitly is never
\* looked up (lines 156, 168), so requests that differ only in a parameter
\* the call does not read are drawn once, with that parameter absent.
RequestsFor(page, per_page) ==
    {r \in Requests : /\ (page # None => r.page = None)
                      /\ (per_page # None => r.per_page = None)}

NoCall ==
    [op |-> "none", page |-> None, per_page |-> None, strict |-> FALSE,
     req |-> [active |-> FALSE, page |-> None, per_page |-> None]]

InitPaginate ==
    /\ rows \in RowCounts
    /\ cur = None
    /\ ret = NoOutcome
    /\ call = NoCall
    /\ pg = None
    /\ pagesOut = None
    /\ wrapper = NewWrapper(None)
    /\ files = {}
    /\ ini = NoIni
    /\ wcall = NoWCall
    /\ wret = WNone

\* query.paginate(page, per_page, throw_api_exception): the call that opens a
\* walk over the pages; prev() and next() continue it.
PaginateCall ==
    \E page \in PageArgs, per_page \in PerPageArgs, strict \in BOOLEAN :
      \E req \in RequestsFor(page, per_page) :
        /\ call.op = "none"
        /\ ret' = Paginate(rows, req, page, per_page, strict, FreshOid)
        /\ cur' = None
        /\ call' = [op |-> "paginate", page |-> page, per_page |-> per_page,
                    strict |-> strict, req |-> req]
        /\ UNCHANGED <<rows, pvars, wvars>>

PrevReturnsSelf(self, req, error_out, oid) ==
    [self |-> [self EXCEPT !.page = IF self.page > 1 THEN self.page - 1 ELSE 1],
     ret |-> Return([self EXCEPT !.page = IF self.page > 1 THEN self.page - 1 ELSE 1],
                    None)]

\* Pagination.prev: the receiver after the call (no field is assigned) and
\* what the call produces.
Prev(self, req, error_out, oid) ==
    [self |-> self,
     ret |-> Paginate(rows, req, Some(self.page - 1), Some(self.per_page),
                      error_out, oid)]

\* Pagination.next: the receiver after the call and what the call produces.
Next_(self, req, error_out, oid) ==
    [self |-> self,
     ret |-> Paginate(rows, req, Some(self.page + 1), Some(self.per_page),
                      error_out, oid)]

PrevCall ==
    \E self \in Live, error_out \in BOOLEAN,
       req \in RequestsFor(Some(0), Some(0)) :
        /\ self.query # "None"
        /\ ret' = Prev(self, req, error_out, FreshOid).ret
        /\ cur' = Some(Prev(self, req, error_out, FreshOid).self)
        /\ call' = [op |-> "prev", page |-> Some(self.page - 1),
                    per_page |-> Some(self.per_page), strict |-> error_out,
                    req |-> req]
        /\ UNCHANGED <<rows, pvars, wvars>>

NextCall ==
    \E self \in Live, error_out \in BOOLEAN,
       req \in RequestsFor(Some(0), Some(0)) :
        /\ self.query # "None"
        /\ self.page <= MaxPage
        /\ ret' = Next_(self, req, error_out, FreshOid).ret
        /\ cur' = Some(Next_(self, req, error_out, FreshOid).self)
        /\ call' = [op |-> "next", page |-> Some(self.page + 1),
                    per_page |-> Some(self.per_page), strict |-> error_out,
                    req |-> req]
        /\ UNCHANGED <<rows, pvars, wvars>>

NextPaginate == PaginateCall \/ PrevCall \/ NextCall
SpecPaginate == InitPaginate /\ [][NextPaginate]_vars

\* ----------------------------------------------------------- SpecWrapper
InitWrapper ==
    /\ wrapper \in {NewWrapper(c) : c \in ConfigArgs}
    /\ files \in {{}, {DatabasePath(<<"data">>, <<"test_db">>)}}
    /\ ini = InitialIni
    /\ wcall = NoWCall
    /\ wret = WNone
    /\ pg = None
    /\ pagesOut = None
    /\ rows = 0
    /\ cur = None
    /\ ret = [kind |-> "none", exc |-> "", status_code |-> 0, message |-> "",
              obj |-> None, slice |-> None]
    /\ call = [op |-> "none", page |-> None, per_page |-> None, strict |-> FALSE,
               req |-> [active |-> FALSE, page |-> None, per_page |-> None]]

ConnectSqliteCall ==
    \E dir \in DirArgs, name \in NameArgs, connection_url \in UrlArgs :
        LET out == ConnectSqlite(wrapper, files, dir, name, connection_url)
        IN /\ wrapper' = out.w
           /\ files' = out.files
           /\ wret' = out.ret
           /\ wcall' = [op |-> "connect_sqlite", dir |-> dir, name |-> name,
                        url |-> connection_url, flag |-> FALSE,
                        attempted |-> FALSE]
           /\ UNCHANGED <<ini, pvars, qvars>>

ConnectPostgresqlCall ==
    \E config \in ConfigArgs, c \in Credentials, ssl_require \in BOOLEAN,
       connection_url \in UrlArgs :
        LET out == ConnectPostgresql(wrapper, config, c.host, c.username,
                                     c.password, c.name, ssl_require,
                                     connection_url)
        IN /\ wrapper' = out.w
           /\ wret' = out.ret
           /\ wcall' = [op |-> "connect_postgresql", dir |-> None, name |-> None,
                        url |-> connection_url, flag |-> ssl_require,
                        attempted |-> FALSE]
           /\ UNCHANGED <<files, ini, pvars, qvars>>

SetConfigCall ==
    \E config \in {Some(NewConfig), Some(OtherConfig)} :
        /\ wrapper' = SetConfig(wrapper, config)
        /\ wret' = WReturn
        /\ wcall' = [op |-> "set_config", dir |-> None, name |-> None,
                     url |-> None, flag |-> FALSE, attempted |-> FALSE]
        /\ UNCHANGED <<files, ini, pvars, qvars>>

InitializeMigrationsCall ==
    \E dir \in MigDirs, raise_exception \in BOOLEAN :
        LET out == InitializeMigrations(wrapper, ini, dir, raise_exception)
        IN /\ ini' = out.ini
           /\ wret' = out.ret
           /\ wcall' = [op |-> "initialize_migrations", dir |-> Some(dir),
                        name |-> None, url |-> None, flag |-> raise_exception,
                        attempted |-> out.attempted]
           /\ UNCHANGED <<wrapper, files, pvars, qvars>>

NextWrapper ==
    \/ ConnectSqliteCall
    \/ ConnectPostgresqlCall
    \/ SetConfigCall
    \/ InitializeMigrationsCall
SpecWrapper == InitWrapper /\ [][NextWrapper]_vars

NextPages == ReadPages
SpecPages == InitPages /\ [][NextPages]_vars

\* ================================================================= claims
InputError(o) ==
    /\ o.kind = "raise"
    /\ o.exc = "SQLAlchemyResolverFlaskException"
    /\ o.status_code = 400
    /\ o.obj = None

\* The integer a request parameter's text denotes, <<>> when it denotes none;
\* written out by hand for the texts of ArgStrs.
Denotes(s) ==
    CASE s = <<"0">> -> Some(0)
      [] s = <<"1">> -> Some(1)
      [] s = <<"2">> -> Some(2)
      [] s = <<"2", "0">> -> Some(20)
      [] s = <<"-", "1">> -> Some(0 - 1)
      [] OTHER -> None

\* The value a call asks for: the argument, else the request parameter, else
\* the default; None when the request parameter is no number.
Asked(given, arg, default) ==
    IF given # None THEN given
    ELSE IF arg = None THEN Some(default) ELSE Denotes(Val(arg))

AskedPage == Asked(call.page, call.req.page, 1)
AskedPerPage == Asked(call.per_page, call.req.per_page, 20)

Min(a, b) == IF a < b THEN a ELSE b

\* Rows lo+1 .. hi of the query, in order (none when hi <= lo).
RowsBetween(lo, hi) == [i \in 1..(hi - lo) |-> lo + i]

\* C1: for total >= 0 and per_page >= 0, pages is the ceiling of
\* total / per_page when per_page > 0 (the least k with k * per_page >= total)
\* and 0 when per_page = 0; pages = 0 when total = 0; pages = 5 for total 95
\* and per_page 20.
C1_PagesIsCeiling ==
    (pagesOut # None /\ Val(pg).total # None /\ Val(pg).per_page >= 0) =>
        LET t == Val(Val(pg).total)
            pp == Val(pg).per_page
            k == Val(pagesOut)
        IN /\ (pp = 0 => k = 0)
           /\ (pp > 0 => k * pp >= t /\ (k - 1) * pp < t)
           /\ (t = 0 => k = 0)
           /\ (t = 95 /\ pp = 20 => k = 5)

C1_Witness ==
    /\ pagesOut = Some(5)
    /\ Val(pg).total = Some(95)
    /\ Val(pg).per_page = 20

\* C2: a call with page < 1 succeeds in non-strict mode with page = 1 and the
\* items from offset 0, and raises the request-input error (status 400) in
\* strict mode, returning no Pagination.
C2_PageBelowOne ==
    (call.op # "none" /\ AskedPage # None /\ Val(AskedPage) < 1) =>
        IF call.strict
        THEN InputError(ret)
        ELSE /\ ret.kind = "ok"
             /\ Val(ret.obj).page = 1
             /\ Val(ret.slice).offset = 0
             /\ Val(ret.obj).items
                  = RowsBetween(0, Min(rows, Val(ret.obj).per_page))

C2_Witness ==
    /\ call.op = "paginate"
    /\ call.page = Some(0 - 1)
    /\ ~call.strict
    /\ ret.kind = "ok"
    /\ Val(ret.obj).page = 1
    /\ Val(ret.obj).items = <<1, 2>>

\* C3: a call with per_page < 0 succeeds in non-strict mode with
\* per_page = 20 and the slice computed with 20, and raises the request-input
\* error (status 400) in strict mode, returning no Pagination.
C3_PerPageBelowZero ==
    (call.op # "none" /\ AskedPerPage # None /\ Val(AskedPerPage) < 0) =>
        IF call.strict
        THEN InputError(ret)
        ELSE /\ ret.kind = "ok"
             /\ Val(ret.obj).per_page = 20
             /\ Val(ret.slice).limit = 20
             /\ Val(ret.slice).offset = (Val(ret.obj).page - 1) * 20
             /\ Len(Val(ret.obj).items) <= 20

C3_Witness ==
    /\ call.op = "paginate"
    /\ call.per_page = None
    /\ call.req.per_page = Some(<<"-", "1">>)
    /\ ~call.strict
    /\ rows = 21
    /\ ret.kind = "ok"
    /\ Val(ret.obj).per_page = 20
    /\ Len(Val(ret.obj).items) = 20

\* C4: for page >= 1 and per_page >= 0 the items are the rows at positions
\* (page-1)*per_page up to but excluding min(N, page*per_page) and total = N;
\* an empty page is returned in non-strict mode and on page 1, and raises the
\* request-input error in strict mode on any other page.
C4_SliceOfRows ==
    (/\ call.op # "none"
     /\ AskedPage # None /\ Val(AskedPage) >= 1
     /\ AskedPerPage # None /\ Val(AskedPerPage) >= 0) =>
        LET page == Val(AskedPage)
            per_page == Val(AskedPerPage)
            expected == RowsBetween((page - 1) * per_page,
                                    Min(rows, page * per_page))
        IN IF call.strict /\ expected = <<>> /\ page # 1
           THEN InputError(ret)
           ELSE /\ ret.kind = "ok"
                /\ Val(ret.obj).items = expected
                /\ Val(ret.obj).total = Some(rows)
                /\ Val(ret.obj).page = page
                /\ Val(ret.obj).per_page = per_page

C4_Witness ==
    /\ call.op = "paginate"
    /\ call.page = Some(3)
    /\ call.per_page = Some(2)
    /\ ~call.strict
    /\ rows = 4
    /\ ret.kind = "ok"
    /\ Val(ret.obj).items = <<>>
    /\ Val(ret.obj).total = Some(4)

\* What C5 calls invalid: a page or per_page that is non-positive, or a
\* request parameter that is no number.
PageNonPositive == AskedPage = None \/ Val(AskedPage) <= 0
PerPageNonPositive == AskedPerPage = None \/ Val(AskedPerPage) <= 0

\* C5 as stated: every non-positive or non-numeric page or per_page falls
\* back to its default (1 or 20) in non-strict mode or raises in strict mode,
\* and never reaches the query slice or the returned Pagination.
C5_NonPositiveRejected ==
    (call.op # "none" /\ (PageNonPositive \/ PerPageNonPositive)) =>
        IF call.strict
        THEN InputError(ret)
        ELSE /\ ret.kind = "ok"
             /\ (PageNonPositive => Val(ret.obj).page = 1)
             /\ (PerPageNonPositive =>
                    Val(ret.obj).per_page = 20 /\ Val(ret.slice).limit = 20)

\* What the code treats as invalid: page < 1, per_page < 0, or a request
\* parameter that is no number.
PageInvalid == AskedPage = None \/ Val(AskedPage) < 1
PerPageInvalid == AskedPerPage = None \/ Val(AskedPerPage) < 0

\* C5 (amended): page and per_page default to 1 and 20 and are read from the
\* request when one is active; a page < 1, a per_page < 0 or a non-numeric
\* request parameter falls back to 1 or 20 in non-strict mode and raises the
\* request-input error in strict mode, and never reaches the slice or the
\* Pagination; per_page = 0 is accepted as given.
C5_InvalidRejected ==
    call.op # "none" =>
        /\ (PageInvalid \/ PerPageInvalid) =>
              IF call.strict
              THEN InputError(ret) /\ ret.slice = None
              ELSE /\ ret.kind = "ok"
                   /\ (PageInvalid => Val(ret.obj).page = 1)
                   /\ (PerPageInvalid =>
                          Val(ret.obj).per_page = 20 /\ Val(ret.slice).limit = 20)
        /\ ret.kind = "ok" =>
              /\ (~PageInvalid => Val(ret.obj).page = Val(AskedPage))
              /\ (~PerPageInvalid => Val(ret.obj).per_page = Val(AskedPerPage))
              /\ Val(ret.obj).page >= 1
              /\ Val(ret.obj).per_page >= 0
        /\ ret.slice # None =>
              /\ Val(ret.slice).limit >= 0
              /\ Val(ret.slice).offset >= 0
              /\ ~PerPageInvalid => Val(ret.slice).limit = Val(AskedPerPage)

C5_Witness ==
    /\ call.op = "paginate"
    /\ call.page = None
    /\ call.req.page = Some(<<"1", "x">>)
    /\ call.per_page = Some(0)
    /\ ~call.strict
    /\ ret.kind = "ok"
    /\ Val(ret.obj).page = 1
    /\ Val(ret.obj).per_page = 0

\* The least k with k * per_page >= total, 0 when per_page = 0.
Ceiling(total, per_page) ==
    IF per_page = 0 THEN 0
    ELSE CHOOSE k \in 0..total : k * per_page >= total /\ (k - 1) * per_page < total

WellFormed(o) ==
    /\ o.page >= 1
    /\ o.per_page >= 0
    /\ HasPrev(o) <=> o.page > 1
    /\ PrevNum(o) = (IF o.page > 1 THEN Some(o.page - 1) ELSE None)
    /\ HasNext(o) <=> o.page < Ceiling(Val(o.total), o.per_page)
    /\ NextNum(o) = (IF o.page < Ceiling(Val(o.total), o.per_page)
                     THEN Some(o.page + 1) ELSE None)

\* C9: every Pagination reached from a paginate call by prev() and next()
\* has page >= 1 and per_page >= 0; a non-strict prev()/next() returns a new
\* Pagination and leaves the one it was called on as it was; prev() on page 1
\* gives page 1, next() gives page + 1 even past the last page; has_prev is
\* page > 1, has_next is page < pages, prev_num/next_num are None otherwise.
C9_WalkKeepsInvariant ==
    [][/\ \A o \in Live' : WellFormed(o)
       /\ (call'.op \in {"prev", "next"} /\ ~call'.strict) =>
             /\ cur' # None
             /\ Val(cur') \in Live
             /\ ret'.kind = "ok"
             /\ \A o \in Live : o.oid # Val(ret'.obj).oid
             /\ Val(ret'.obj).per_page = Val(cur').per_page
             /\ call'.op = "prev" =>
                   Val(ret'.obj).page
                     = (IF Val(cur').page = 1 THEN 1 ELSE Val(cur').page - 1)
             /\ call'.op = "next" =>
                   Val(ret'.obj).page = Val(cur').page + 1]_vars

C9_Witness ==
    /\ call.op = "next"
    /\ ~call.strict
    /\ ret.kind = "ok"
    /\ Val(cur).page = 3
    /\ Val(ret.obj).page = 4
    /\ Val(ret.obj).page > Pages(Val(ret.obj))
    /\ Val(ret.obj).items = <<>>

\* C6: connect_sqlite without a connection URL and with no directory path, a
\* path that is no existing directory, or no database name raises the
\* configuration error; no database file is created and engine, session
\* factory, Session, URL and connected keep their values.
C6_SqliteArgsChecked ==
    [][(/\ wcall'.op = "connect_sqlite"
        /\ ~Truthy(wcall'.url)
        /\ \/ wcall'.dir = None
           \/ wcall'.dir = Some(<<"nodir">>)
           \/ wcall'.name = None) =>
          /\ wret'.kind = "raise"
          /\ wret'.exc = "SQLAlchemyWrapperException"
          /\ files' = files
          /\ wrapper'.engine = wrapper.engine
          /\ wrapper'.session_factory = wrapper.session_factory
          /\ wrapper'.Session = wrapper.Session
          /\ wrapper'.url = wrapper.url
          /\ wrapper'.connected = wrapper.connected]_vars

C6_Witness ==
    /\ wcall.op = "connect_sqlite"
    /\ wcall.dir = Some(<<"nodir">>)
    /\ wcall.name = Some(<<"test_db">>)
    /\ wcall.url = None
    /\ wret.exc = "SQLAlchemyWrapperException"
    /\ wret.message = "Given database path is not a directory"
    /\ wrapper.connected
    /\ wrapper.engine # None
    /\ files = {}

\* C7: after initialize_migrations on a directory with an initialized layout,
\* called on a connected wrapper, sqlalchemy.url in the ini file equals
\* get_database_url, whichever connect and set_config calls came before.
C7_IniHoldsCurrentUrl ==
    (/\ wcall.op = "initialize_migrations"
     /\ wcall.dir = Some(<<"mig">>)
     /\ wrapper.connected) =>
        ini[<<"mig">>] = GetDatabaseUrl(wrapper)

\* The messages of the checks of initialize_migrations, in the order the
\* claim gives: connected, directory, alembic subdirectory, ini file.
C8_Expected(connected, dir, raise_exception) ==
    IF ~connected THEN "SQLAlchemy wrapper is not connected"
    ELSE IF raise_exception /\ dir = <<"nomig">>
    THEN "Migration directory does not exist"
    ELSE IF raise_exception /\ dir = <<"mig_bare">>
    THEN "Alembic migration directory does not exist"
    ELSE IF raise_exception /\ dir = <<"mig_noini">>
    THEN "Alembic ini file does not exist"
    ELSE ""

\* C8: initialize_migrations raises the configuration error and rewrites no
\* ini file when the wrapper is not connected (whatever raise_exception is)
\* or when raise_exception is true and the directory, its alembic
\* subdirectory or its alembic.ini is absent, checked in that order; with
\* raise_exception false a missing layout raises no configuration error and
\* the call goes on to the rewrite.
C8_MigrationChecks ==
    [][wcall'.op = "initialize_migrations" =>
          LET msg == C8_Expected(wrapper.connected, Val(wcall'.dir), wcall'.flag)
          IN IF msg # ""
             THEN /\ wret' = ConfigError(msg)
                  /\ ini' = ini
                  /\ ~wcall'.attempted
             ELSE /\ wret'.exc # "SQLAlchemyWrapperException"
                  /\ wcall'.attempted]_vars

C8_Witness ==
    /\ wcall.op = "initialize_migrations"
    /\ wcall.dir = Some(<<"mig_bare">>)
    /\ wcall.flag
    /\ wrapper.connected
    /\ wret = ConfigError("Alembic migration directory does not exist")

\* C10: whenever connected is true, the engine and the scoped Session are set
\* and the configuration holds a DATABASE_URL equal to get_database_url.
C10_ConnectedConfigHoldsUrl ==
    wrapper.connected =>
        /\ wrapper.engine # None
        /\ wrapper.Session # None
        /\ wrapper.config # None
        /\ "DATABASE_URL" \in DOMAIN Val(wrapper.config)
        /\ Val(wrapper.config)["DATABASE_URL"] = Val(GetDatabaseUrl(wrapper))

====
